---------------------------- MODULE Spec2Model ----------------------------
(***************************************************************************)
(* Retrieval and conversation core of the BBC audio RAG application:       *)
(*   - VectorStore.chunk_text, add_transcript, add_all_transcripts,        *)
(*     search_filtered, clear            (src/src/chat/vector_store.py)    *)
(*   - ChatEngine.ask, clear_history, start_new_session, save_session,     *)
(*     load_session, delete_session      (src/src/chat/chat_engine.py)     *)
(* Texts are sequences of one-character strings.  Python's None is the     *)
(* model value None; a falsy integer argument (None or 0) is 0.            *)
(***************************************************************************)
EXTENDS Integers, Sequences, FiniteSets, TLC

None == "None"

(***************************************************************************)
(* Configuration (src/config.py).                                          *)
(***************************************************************************)
CHUNK_SIZE == 1000
CHUNK_OVERLAP == 200
TOP_K_RESULTS == 5

(***************************************************************************)
(* Bounds of the model.                                                    *)
(***************************************************************************)
\* longest text of the exhaustive chunker inputs
MaxLen == 6
\* largest explicit chunk_size of the exhaustive chunker inputs
MaxChunk == 5
\* iterations of the chunking loop that are followed
MaxIter == 8

VARIABLES
    \* ---- VectorStore.chunk_text: arguments and locals of one call
    text,           \* the text being chunked
    chunk_size,     \* chunk_size after the configuration default
    overlap,        \* overlap after the configuration default
    start,          \* local `start`
    chunks,         \* local `chunks`
    windows,        \* the (start, end) of every chunk appended so far
    cpc,            \* "loop" while the while-loop runs, "done" once returned
    \* ---- the transcripts directory and the ChromaDB collection
    files,          \* transcript path -> [state, text] of the file on disk
    collection,     \* the entries of the collection, one per chunk id
    \* ---- ChatEngine
    model,                  \* self.model: None or the configured model
    conversation_history,   \* self.conversation_history
    current_session_id,     \* self.current_session_id, 0 for None
    session_start_time,     \* self.session_start_time, 0 for None
    \* ---- Config.CHAT_HISTORY_DIR, the clock and the uuids handed out
    sessions,       \* session id -> the content of <id>.json
    now,            \* what datetime.now() returns
    uuids,          \* number of uuid4() values drawn so far
    \* ---- HistoryManager
    listening_history,  \* self.history: content name -> its record
    history_file,       \* the content of listening_history.json
    \* ---- the last call made on the store, the engine or the manager
    ret             \* [op, its arguments, raised, value]

chunkVars == <<text, chunk_size, overlap, start, chunks, windows, cpc>>
indexVars == <<files, collection>>
engineVars == <<model, conversation_history, current_session_id,
                session_start_time>>
diskVars == <<sessions, now, uuids>>
chatVars == <<engineVars, diskVars>>
listenVars == <<listening_history, history_file>>

vars == <<chunkVars, indexVars, chatVars, listenVars, ret>>

(***************************************************************************)
(* Python helpers used by chunk_text.                                      *)
(***************************************************************************)
Max(a, b) == IF a >= b THEN a ELSE b
Min(a, b) == IF a <= b THEN a ELSE b
SetMin(S) == CHOOSE x \in S : \A y \in S : x <= y
SetMax(S) == 0 - SetMin({0 - x : x \in S})

Whitespace == {" ", "\n"}
Alphabet == {"a", ".", " ", "\n"}

\* a slice index clamped the way Python clamps it (negative: from the end)
PyIndex(i, n) == IF i < 0 THEN Max(i + n, 0) ELSE Min(i, n)

\* s[a:b]
PySlice(s, a, b) ==
    LET lo == PyIndex(a, Len(s))
        hi == PyIndex(b, Len(s))
    IN  IF lo >= hi THEN <<>> ELSE SubSeq(s, lo + 1, hi)

\* s.rfind(c): the 0-based index of the last c, or -1
RFind(s, c) ==
    LET hits == {i \in 1..Len(s) : s[i] = c}
    IN  IF hits = {} THEN -1 ELSE SetMax(hits) - 1

\* number of whitespace characters s.strip() removes from the front
LeadWs(s) ==
    LET solid == {i \in 1..Len(s) : s[i] \notin Whitespace}
    IN  IF solid = {} THEN Len(s) ELSE SetMin(solid) - 1

\* s.strip()
Strip(s) ==
    LET solid == {i \in 1..Len(s) : s[i] \notin Whitespace}
    IN  IF solid = {} THEN <<>> ELSE SubSeq(s, SetMin(solid), SetMax(solid))

\* `x or default` for an integer argument
OrDefault(x, default) == IF x = 0 THEN default ELSE x

(***************************************************************************)
(* VectorStore.chunk_text, one iteration of the while loop.                *)
(***************************************************************************)
\* line 74: break_point > chunk_size * 0.5
PastHalfway(break_point, cs) == 2 * break_point > cs

\* lines 65-76: the window [st, end) of the iteration and its raw chunk
Window(t, cs, st) ==
    LET end0   == st + cs
        chunk0 == PySlice(t, st, end0)
        break_point == Max(RFind(chunk0, "."), RFind(chunk0, "\n"))
    IN  IF end0 < Len(t) /\ PastHalfway(break_point, cs)
        THEN [chunk |-> PySlice(chunk0, 0, break_point + 1),
              end   |-> st + break_point + 1]
        ELSE [chunk |-> chunk0, end |-> end0]

\* line 79: start = end - overlap
NextStartSkipping(end, ov) == end + ov
NextStart(end, ov) == end - ov

\* line 64: while start < len(text)
LoopCond(t, st) == st < Len(t)

(***************************************************************************)
(* chunk_text as a state machine: one action per loop iteration.           *)
(***************************************************************************)
Texts(n) == UNION {[1..k -> Alphabet] : k \in 0..n}

Rep(c, n) == [i \in 1..n |-> c]

\* the documents of the 2500-character scenario, chunked with the defaults
ScenarioTexts == {Rep("a", 2500), Rep("a", 1000), Rep("a", 1800)}

ChunkCall(t, cs, ov) ==
    /\ text = t
    /\ chunk_size = OrDefault(cs, CHUNK_SIZE)
    /\ overlap = OrDefault(ov, CHUNK_OVERLAP)
    /\ start = 0
    /\ chunks = <<>>
    /\ windows = <<>>
    /\ cpc = "loop"

\* the content names of the listening history
Contents == {1, 2}

\* self.history[content_name] when the name is not a key; no history file
Untracked == [tracked |-> FALSE]
NoHistoryFile == [kind |-> "missing"]

\* HistoryManager.__init__ (lines 21-22) with no listening_history.json
IdleListening ==
    /\ listening_history = [c \in Contents |-> Untracked]
    /\ history_file = NoHistoryFile

\* the variables of the other components while the chunker is studied alone
IdleChat ==
    /\ model = None
    /\ conversation_history = <<>>
    /\ current_session_id = 0
    /\ session_start_time = 0
    /\ sessions = <<>>
    /\ now = 1
    /\ uuids = 0

IdleIndex ==
    /\ files = <<>>
    /\ collection = {}
    /\ ret = [op |-> "chunk_text"]

InitChunk ==
    /\ \/ \E t \in Texts(MaxLen), cs \in 2..MaxChunk :
            \E ov \in 1..(cs - 1) : ChunkCall(t, cs, ov)
       \/ \E t \in ScenarioTexts : ChunkCall(t, 0, 0)
    /\ IdleIndex
    /\ IdleChat
    /\ IdleListening

ChunkIterate ==
    /\ cpc = "loop"
    /\ LoopCond(text, start)
    /\ Len(chunks) < MaxIter
    /\ LET w == Window(text, chunk_size, start)
       IN  /\ chunks' = Append(chunks, Strip(w.chunk))
           /\ windows' = Append(windows, <<start, w.end>>)
           /\ start' = NextStart(w.end, overlap)
    /\ UNCHANGED <<text, chunk_size, overlap, cpc, indexVars, chatVars,
                   listenVars, ret>>

ChunkReturn ==
    /\ cpc = "loop"
    /\ ~LoopCond(text, start)
    /\ cpc' = "done"
    /\ UNCHANGED <<text, chunk_size, overlap, start, chunks, windows, indexVars,
                   chatVars, listenVars, ret>>

NextChunk == ChunkIterate \/ ChunkReturn

SpecChunk == InitChunk /\ [][NextChunk]_vars

(***************************************************************************)
(* chunk_text as a function of its arguments: the loop run to its end.     *)
(* `returned` is FALSE when the loop is still running after MaxIter        *)
(* iterations.                                                             *)
(***************************************************************************)
RECURSIVE ChunkLoop(_, _, _, _, _, _)
ChunkLoop(t, cs, ov, st, acc, fuel) ==
    IF ~LoopCond(t, st) THEN [returned |-> TRUE, chunks |-> acc]
    ELSE IF fuel = 0 THEN [returned |-> FALSE, chunks |-> acc]
    ELSE LET w == Window(t, cs, st)
         IN  ChunkLoop(t, cs, ov, NextStart(w.end, ov),
                       Append(acc, Strip(w.chunk)), fuel - 1)

chunk_text(t, cs, ov) ==
    ChunkLoop(t, OrDefault(cs, CHUNK_SIZE), OrDefault(ov, CHUNK_OVERLAP),
              0, <<>>, MaxIter)

(***************************************************************************)
(* The transcripts directory.  A path is the position of the file name in  *)
(* the sorted listing of Config.TRANSCRIPTS_DIR; its stem and its string   *)
(* form are the same number.                                               *)
(***************************************************************************)
\* number of transcript files the directory can hold
MaxDocs == 2

Paths == 1..MaxDocs

\* transcript texts: 1, 1 and 2 chunks with the configured sizes
DocTexts == {Rep("a", 3), Rep("b", 4), Rep("a", 801)}

\* chunk_text(text) of every transcript text, computed once
DocChunks == [t \in DocTexts |-> chunk_text(t, 0, 0).chunks]

Absent == [state |-> "absent", text |-> <<>>]
Unreadable == [state |-> "unreadable", text |-> <<>>]
File(t) == [state |-> "ok", text |-> t]
FileStates == {Absent, Unreadable} \cup {File(t) : t \in DocTexts}

RECURSIVE SortedSeq(_)
SortedSeq(S) ==
    IF S = {} THEN <<>> ELSE <<SetMin(S)>> \o SortedSeq(S \ {SetMin(S)})

\* FileManager.list_transcripts: sorted(TRANSCRIPTS_DIR.glob('*.txt'))
list_transcripts(fs) ==
    SortedSeq({p \in DOMAIN fs : fs[p].state # "absent"})

(***************************************************************************)
(* The ChromaDB collection: a set of entries with distinct ids.            *)
(***************************************************************************)
Keys(coll) == {e.id : e \in coll}

\* collection.add(documents, metadatas, ids): an id that is already in the
\* collection keeps its entry; add never overwrites
CollectionAdd(coll, entries) ==
    coll \cup {e \in entries : e.id \notin Keys(coll)}

\* the embedding of a text by the store's embedding function, as a number
Embed(doc) ==
    Min(Len(doc), 9) + (IF doc # <<>> /\ doc[1] = "b" THEN 20 ELSE 0)

\* the distance of a stored text to a query (queries are numbers too)
Dist(q, doc) == IF Embed(doc) >= q THEN Embed(doc) - q ELSE q - Embed(doc)

NoWhere == [given |-> FALSE, files |-> {}]

\* where = {"$or": [{"source": {"$eq": s}} for s in files]}
Matching(coll, where) ==
    IF where.given THEN {e \in coll : e.metadata.source \in where.files}
    ELSE coll

\* the orders in which the k nearest of S can be returned (ties in any order)
RECURSIVE Nearest(_, _, _)
Nearest(S, q, k) ==
    IF k = 0 \/ S = {} THEN {<<>>}
    ELSE LET best == {e \in S : \A o \in S : Dist(q, e.document) <= Dist(q, o.document)}
         IN  UNION {{<<e>> \o rest : rest \in Nearest(S \ {e}, q, k - 1)} : e \in best}

\* collection.query(query_texts=[q], n_results=k, where=where)
CollectionQuery(coll, q, k, where) == Nearest(Matching(coll, where), q, k)

(***************************************************************************)
(* VectorStore.add_transcript and add_all_transcripts as functions of the  *)
(* collection and the directory: [raised, value, coll].                    *)
(***************************************************************************)
\* line 114: f"{transcript_path.stem}_chunk_{i}"
ChunkId(path, i) == <<path, i>>

\* lines 114-123: one entry per chunk
Entries(path, chs) ==
    {[id |-> ChunkId(path, i - 1),
      document |-> chs[i],
      metadata |-> [source |-> path, chunk_index |-> i - 1,
                    total_chunks |-> Len(chs)]] : i \in 1..Len(chs)}

Raised(coll) == [raised |-> TRUE, value |-> None, coll |-> coll]
Returned(v, coll) == [raised |-> FALSE, value |-> v, coll |-> coll]

\* storeRaises: collection.add raises (and adds nothing)
add_transcript(coll, fs, path, storeRaises) ==
    IF fs[path].state = "absent" THEN Returned(0, coll)
    ELSE IF fs[path].state = "unreadable" THEN Raised(coll)
    ELSE LET chs == DocChunks[fs[path].text]
         IN  IF storeRaises THEN Raised(coll)
             ELSE Returned(Len(chs), CollectionAdd(coll, Entries(path, chs)))

\* lines 145-151; storeFault: the path at which collection.add raises, or 0
RECURSIVE AddAllLoop(_, _, _, _, _)
AddAllLoop(coll, fs, todo, total_chunks, storeFault) ==
    IF todo = <<>> THEN Returned(total_chunks, coll)
    ELSE LET r == add_transcript(coll, fs, Head(todo), Head(todo) = storeFault)
         IN  IF r.raised THEN r
             ELSE AddAllLoop(r.coll, fs, Tail(todo), total_chunks + r.value,
                             storeFault)

add_all_transcripts(coll, fs, storeFault) ==
    AddAllLoop(coll, fs, list_transcripts(fs), 0, storeFault)

(***************************************************************************)
(* VectorStore.search_filtered: the result lists it can return.            *)
(***************************************************************************)
NoFilter == [given |-> FALSE, files |-> {}]
Filter(S) == [given |-> TRUE, files |-> S]

\* `if source_files:` is false for None and for the empty list
Truthy(source_files) == source_files.given /\ source_files.files # {}

FormatResults(found, q) ==
    [i \in 1..Len(found) |->
        [text |-> found[i].document,
         metadata |-> found[i].metadata,
         distance |-> Dist(q, found[i].document)]]

\* filter applied to the k nearest overall instead of before the search
RECURSIVE SelectSeq2(_, _)
SelectSeq2(sq, S) ==
    IF sq = <<>> THEN <<>>
    ELSE (IF Head(sq).metadata.source \in S THEN <<Head(sq)>> ELSE <<>>)
         \o SelectSeq2(Tail(sq), S)

search_filtered_post(coll, q, source_files, n_results) ==
    LET k == OrDefault(n_results, TOP_K_RESULTS)
    IN  {FormatResults(IF Truthy(source_files)
                       THEN SelectSeq2(found, source_files.files)
                       ELSE found, q) :
            found \in CollectionQuery(coll, q, k, NoWhere)}

search_filtered(coll, q, source_files, n_results) ==
    LET k == OrDefault(n_results, TOP_K_RESULTS)
        where_clause == IF Truthy(source_files)
                        THEN [given |-> TRUE, files |-> source_files.files]
                        ELSE NoWhere
    IN  {FormatResults(found, q) :
            found \in CollectionQuery(coll, q, k, where_clause)}

(***************************************************************************)
(* The index as a state machine.                                           *)
(***************************************************************************)
Queries == {5, 25}
SourceFilters == {NoFilter} \cup {Filter(S) : S \in SUBSET Paths}
NResults == {1, 2}

IdleChunker ==
    /\ text = <<>> /\ chunk_size = CHUNK_SIZE /\ overlap = CHUNK_OVERLAP
    /\ start = 0 /\ chunks = <<>> /\ windows = <<>> /\ cpc = "done"

InitIndex ==
    /\ IdleChunker
    /\ IdleChat
    /\ IdleListening
    /\ files \in [Paths -> FileStates]
    /\ collection = {}
    /\ ret = [op |-> "init"]

\* Transcriber.save_transcript writes the text of a transcript
SaveTranscript(path, t) ==
    /\ files' = [files EXCEPT ![path] = File(t)]
    /\ ret' = [op |-> "save_transcript", path |-> path]
    /\ UNCHANGED <<chunkVars, listenVars, collection, chatVars>>

AddTranscript(path, storeRaises) ==
    LET r == add_transcript(collection, files, path, storeRaises)
    IN  /\ collection' = r.coll
        /\ ret' = [op |-> "add_transcript", path |-> path,
                   raised |-> r.raised, value |-> r.value]
        /\ UNCHANGED <<chunkVars, listenVars, files, chatVars>>

AddAllTranscripts(storeFault) ==
    LET r == add_all_transcripts(collection, files, storeFault)
    IN  /\ collection' = r.coll
        /\ ret' = [op |-> "add_all_transcripts", storeFault |-> storeFault,
                   raised |-> r.raised, value |-> r.value]
        /\ UNCHANGED <<chunkVars, listenVars, files, chatVars>>

\* VectorStore.clear: the collection is deleted and created again
Clear ==
    /\ collection' = {}
    /\ ret' = [op |-> "clear"]
    /\ UNCHANGED <<chunkVars, listenVars, files, chatVars>>

\* queryRaises: collection.query raises
SearchFiltered(q, source_files, n_results, queryRaises) ==
    /\ \E res \in (IF queryRaises THEN {None}
                   ELSE search_filtered(collection, q, source_files, n_results)) :
          ret' = [op |-> "search_filtered", query |-> q,
                  source_files |-> source_files, n_results |-> n_results,
                  raised |-> queryRaises, value |-> res]
    /\ UNCHANGED <<chunkVars, listenVars, files, collection, chatVars>>

\* indexing: transcripts are written, indexed, re-indexed and cleared
NextIndex ==
    \/ \E p \in Paths, t \in DocTexts : SaveTranscript(p, t)
    \/ \E p \in Paths, f \in BOOLEAN : AddTranscript(p, f)
    \/ \E p \in Paths \cup {0} : AddAllTranscripts(p)
    \/ Clear

SpecIndex == InitIndex /\ [][NextIndex]_vars

\* retrieval: the transcripts of the directory are loaded and searched
NextSearch ==
    \/ AddAllTranscripts(0)
    \/ Clear
    \/ \E q \in Queries, sf \in SourceFilters, n \in NResults, f \in BOOLEAN :
          SearchFiltered(q, sf, n, f)

SpecSearch == InitIndex /\ [][NextSearch]_vars

(***************************************************************************)
(* ChatEngine and the session files of Config.CHAT_HISTORY_DIR.            *)
(***************************************************************************)
\* turns one conversation can hold
MaxTurns == 1
\* last value of the clock
MaxTime == 2

\* the values uuid4() returns, in the order it returns them
SessionIds == {1, 2}

\* a question is searched by its text: a question is a query
Questions == {5}
Responses == {"answer"}
\* session_name arguments: <<>> for None or "", else the given name
SessionNames == {<<>>, <<"talk">>}
AskFilters == {NoFilter}

GeminiModel == "gemini-flash-latest"

\* the content of a session file: no file, a record, or unparseable text
Missing == [kind |-> "missing"]
Corrupt == [kind |-> "corrupt"]

\* datetime.isoformat and datetime.fromisoformat
IsoFormat(t) == <<"iso", t>>
FromIsoFormatMinute(iso) == (iso[2] + 1) \div 2
FromIsoFormat(iso) == iso[2]

\* a <= b for two isoformat strings: they are ordered as their times are
IsoLeq(a, b) == a[2] <= b[2]

\* f"Chat {start_time.strftime('%Y-%m-%d %H:%M')}": two clock values a minute
DefaultName(t) == <<"Chat", (t + 1) \div 2>>

\* ChatEngine.ask, lines 82-88: the citation of every search result
Citations(results) ==
    [i \in 1..Len(results) |->
        [source |-> results[i].metadata.source,
         chunk_index |-> results[i].metadata.chunk_index]]

\* lines 64-69
NotConfigured ==
    [response |-> "Error: Google AI API key not configured", sources |-> <<>>,
     error |-> TRUE]

\* lines 135-141
ErrorResult ==
    [response |-> "Error generating response", sources |-> <<>>, error |-> TRUE]

\* ChatEngine.format_sources: "No sources cited." (none), or one line per
\* source in the order of first appearance, with the chunk indices of all
\* its citations
RECURSIVE FormatLines(_, _)
FormatLines(sources, unique_sources) ==
    IF sources = <<>> THEN unique_sources
    ELSE LET source_path == Head(sources).source
             at == {i \in 1..Len(unique_sources) :
                       unique_sources[i].source = source_path}
         IN  FormatLines(Tail(sources),
                 IF at = {}
                 THEN Append(unique_sources,
                             [source |-> source_path,
                              chunks |-> <<Head(sources).chunk_index>>])
                 ELSE [unique_sources EXCEPT ![SetMin(at)].chunks =
                          Append(@, Head(sources).chunk_index)])

format_sources_raw(sources) ==
    [none |-> sources = <<>>,
     lines |-> [i \in 1..Len(sources) |->
                   [source |-> sources[i].source,
                    chunks |-> <<sources[i].chunk_index>>]]]
format_sources(sources) ==
    [none |-> sources = <<>>, lines |-> FormatLines(sources, <<>>)]

\* ChatEngine.is_ready
is_ready_always(m) == TRUE
is_ready(m) == m # None

\* lines 92 and 131: `if context` and bool(context); the context is a
\* non-empty string exactly when the search returned results
ContextAlways(results) == TRUE
ContextUsed(results) == results # <<>>

\* lines 92-112: the prompt with the context, or the fallback prompt
Prompt(results) == IF ContextUsed(results) THEN "context" ELSE "fallback"

\* lines 116-124: the history after the model was asked; the turn is
\* appended once generate_content and response.text have returned
HistoryAppendedFirst(history, turn, fault) ==
    IF fault = "retrieval" THEN history ELSE Append(history, turn)
HistoryUnrecorded(history, turn, fault) == history
HistoryAfterAsk(history, turn, fault) ==
    IF fault = "none" THEN Append(history, turn) ELSE history

\* fault: what raises inside the try block ("retrieval": search_filtered or
\* get_context, "model": generate_content or response.text), or "none".
\* ret tells, next to the result, whether the index was searched and which
\* prompt was sent to the model ("none": the model was not invoked)
Ask(question, use_rag, n_context, source_files, fault, response_text) ==
    /\ fault # "none" => is_ready(model)
    /\ fault = "retrieval" => use_rag
    /\ IF ~is_ready(model)
       THEN /\ ret' = [op |-> "ask", raised |-> FALSE, value |-> NotConfigured,
                       searched |-> FALSE, prompt |-> "none"]
            /\ UNCHANGED conversation_history
       ELSE \E results \in (IF use_rag /\ fault # "retrieval"
                            THEN search_filtered(collection, question, source_files,
                                                 OrDefault(n_context, TOP_K_RESULTS))
                            ELSE {<<>>}) :
              LET sources == IF results # <<>> THEN Citations(results) ELSE <<>>
                  turn == [question |-> question, response |-> response_text,
                           sources |-> sources]
              IN  /\ fault = "none" => Len(conversation_history) < MaxTurns
                  /\ conversation_history' =
                        HistoryAfterAsk(conversation_history, turn, fault)
                  /\ ret' = [op |-> "ask", raised |-> FALSE,
                             value |-> IF fault # "none" THEN ErrorResult
                                       ELSE [response |-> response_text,
                                             sources |-> sources,
                                             context_used |-> ContextUsed(results),
                                             error |-> FALSE],
                             searched |-> use_rag,
                             prompt |-> IF fault = "retrieval" THEN "none"
                                        ELSE Prompt(results)]
    /\ UNCHANGED <<chunkVars, listenVars, indexVars, model,
                   current_session_id, session_start_time, diskVars>>

ClearHistory ==
    /\ conversation_history' = <<>>
    /\ ret' = [op |-> "clear_history"]
    /\ UNCHANGED <<chunkVars, listenVars, indexVars, model,
                   current_session_id, session_start_time, diskVars>>

\* line 210: str(uuid.uuid4()), a value that was never drawn before; drawn
\* is the number of values drawn so far
uuid4_first(drawn) == 1
uuid4(drawn) == drawn + 1

\* lines 210-214
StartNewSession ==
    /\ uuids < Cardinality(SessionIds)
    /\ uuids' = uuids + 1
    /\ current_session_id' = uuid4(uuids)
    /\ session_start_time' = now
    /\ conversation_history' = <<>>
    /\ ret' = [op |-> "start_new_session", raised |-> FALSE,
               value |-> uuid4(uuids)]
    /\ UNCHANGED <<chunkVars, listenVars, indexVars, model, sessions, now>>

\* session_file.exists()
ExistsAlways(file) == TRUE
Exists(file) == file.kind # "missing"

\* lines 226-233
SessionDataRestamped(id, session_name, start_time, history, clock) ==
    [kind |-> "record",
     session_id |-> id,
     session_name |-> IF session_name # <<>> THEN session_name
                      ELSE DefaultName(clock),
     start_time |-> IsoFormat(clock),
     last_updated |-> IsoFormat(clock),
     message_count |-> Len(history),
     conversation |-> history]
SessionData(id, session_name, start_time, history, clock) ==
    [kind |-> "record",
     session_id |-> id,
     session_name |-> IF session_name # <<>> THEN session_name
                      ELSE DefaultName(start_time),
     start_time |-> IF start_time # 0 THEN IsoFormat(start_time)
                    ELSE IsoFormat(clock),
     last_updated |-> IsoFormat(clock),
     message_count |-> Len(history),
     conversation |-> history]

\* lines 237-242: open(session_file, 'w') and json.dump; io "open_fails":
\* the file is left as it was, "write_fails": it is left truncated
WriteSession(old, session_data, io) ==
    CASE io = "ok" -> session_data
      [] io = "open_fails" -> old
      [] io = "write_fails" -> Corrupt

SaveSession(session_name, io) ==
    LET implicit == current_session_id = 0
        \* lines 223-224: start_new_session() when no session is active
        id      == IF implicit THEN uuid4(uuids) ELSE current_session_id
        started == IF implicit THEN now ELSE session_start_time
        history == IF implicit THEN <<>> ELSE conversation_history
    IN  /\ implicit => uuids < Cardinality(SessionIds)
        /\ uuids' = IF implicit THEN uuids + 1 ELSE uuids
        /\ current_session_id' = id
        /\ session_start_time' = started
        /\ conversation_history' = history
        /\ sessions' = [sessions EXCEPT ![id] =
                           WriteSession(@, SessionData(id, session_name, started,
                                                       history, now), io)]
        \* rewritten: open(session_file, 'w') found a file of the session
        /\ ret' = [op |-> "save_session", session_name |-> session_name,
                   io |-> io, rewritten |-> Exists(sessions[id]),
                   raised |-> FALSE, value |-> None]
        /\ UNCHANGED <<chunkVars, listenVars, indexVars, model, now>>

\* json.load of a session file: the fields of the object, each <<value>> or
\* <<>> when the object lacks it.  A file that save_session wrote has them
\* all; a file of kind "object" is one that something else put into
\* Config.CHAT_HISTORY_DIR.
Fields(file) ==
    IF file.kind = "record"
    THEN [session_id |-> <<file.session_id>>,
          start_time |-> <<file.start_time>>,
          conversation |-> <<file.conversation>>]
    ELSE [session_id |-> file.session_id,
          start_time |-> file.start_time,
          conversation |-> file.conversation]

\* datetime.fromisoformat accepts the strings isoformat writes
ValidIso(iso) == Len(iso) = 2

\* lines 256-272: a file that is not a JSON object makes json.load raise,
\* a missing field raises KeyError and a malformed start_time ValueError;
\* the exception is caught and answered with False.  The three fields of
\* the engine are assigned one after the other (lines 264-266), so the
\* assignments made before the exception stay.
LoadSession(session_id) ==
    LET file   == sessions[session_id]
        parsed == Exists(file) /\ file.kind \in {"record", "object"}
        got_id == parsed /\ Fields(file).session_id # <<>>
        got_start == /\ got_id
                     /\ Fields(file).start_time # <<>>
                     /\ ValidIso(Fields(file).start_time[1])
        loaded == got_start /\ Fields(file).conversation # <<>>
    IN  /\ current_session_id' = IF got_id THEN Fields(file).session_id[1]
                                 ELSE current_session_id
        /\ session_start_time' =
              IF got_start THEN FromIsoFormat(Fields(file).start_time[1])
              ELSE session_start_time
        /\ conversation_history' = IF loaded THEN Fields(file).conversation[1]
                                   ELSE conversation_history
        /\ ret' = [op |-> "load_session", session_id |-> session_id,
                   raised |-> FALSE, value |-> loaded]
        /\ UNCHANGED <<chunkVars, listenVars, indexVars, model, diskVars>>

\* line 416: session_file.unlink()
UnlinkNothing(ss, session_id) == ss
UnlinkAll(ss, session_id) == [id \in DOMAIN ss |-> Missing]
Unlink(ss, session_id) == [ss EXCEPT ![session_id] = Missing]

\* lines 414-424: the file is removed when it exists; an unlink that raises
\* (io = "fails") is caught and answered with False
DeleteSession(session_id, io) ==
    LET deleted == Exists(sessions[session_id]) /\ io = "ok"
    IN  /\ io = "fails" => Exists(sessions[session_id])
        /\ sessions' = IF deleted THEN Unlink(sessions, session_id)
                       ELSE sessions
        /\ ret' = [op |-> "delete_session", session_id |-> session_id,
                   io |-> io, raised |-> FALSE, value |-> deleted]
    /\ UNCHANGED <<chunkVars, listenVars, indexVars, engineVars, now,
                   uuids>>

\* lines 288-301: the entry of one session file in the listing; the preview
\* is <<>> for "" and else holds the first question
SessionSummaryUncounted(file) ==
    [session_id |-> file.session_id,
     session_name |-> file.session_name,
     start_time |-> file.start_time,
     last_updated |-> file.last_updated,
     message_count |-> 0,
     preview |-> IF file.conversation # <<>>
                 THEN <<file.conversation[1].question>> ELSE <<>>]
SessionSummary(file) ==
    [session_id |-> file.session_id,
     session_name |-> file.session_name,
     start_time |-> file.start_time,
     last_updated |-> file.last_updated,
     message_count |-> file.message_count,
     preview |-> IF file.conversation # <<>>
                 THEN <<file.conversation[1].question>> ELSE <<>>]

\* line 306: sessions.sort(key=last_updated, reverse=True); the strings of
\* isoformat are ordered as their times are, and entries with the same key
\* stay in the order of glob, which is any order
RECURSIVE SortedByLastUpdated(_)
SortedByLastUpdated(S) ==
    IF S = {} THEN {<<>>}
    ELSE LET first == {e \in S : \A o \in S :
                          IsoLeq(o.last_updated, e.last_updated)}
         IN  UNION {{<<e>> \o rest : rest \in SortedByLastUpdated(S \ {e})} :
                      e \in first}

\* ChatEngine.list_sessions: the lists it can return; a file that cannot be
\* parsed is skipped
list_sessions(ss) ==
    SortedByLastUpdated({SessionSummary(ss[id]) :
                            id \in {i \in DOMAIN ss : ss[i].kind = "record"}})

ListSessions ==
    /\ \E listing \in list_sessions(sessions) :
          ret' = [op |-> "list_sessions", raised |-> FALSE, value |-> listing]
    /\ UNCHANGED <<chunkVars, listenVars, indexVars, chatVars>>

ExportFormats == {"json", "txt", "md"}

\* line 333-347: exports/chat_<%Y%m%d_%H%M%S>.<format>
ExportPath(format, clock) == <<"exports", "chat", clock, format>>

\* _format_session_as_text and _format_session_as_markdown: what of the
\* record the text shows
FormatAsText(session_data) ==
    [format |-> "txt",
     session_name |-> session_data.session_name,
     start_time |-> session_data.start_time,
     message_count |-> session_data.message_count,
     turns |-> [i \in 1..Len(session_data.conversation) |->
                   [question |-> session_data.conversation[i].question,
                    response |-> session_data.conversation[i].response]]]

FormatAsMarkdown(session_data) ==
    [format |-> "md",
     session_name |-> session_data.session_name,
     start_time |-> session_data.start_time,
     message_count |-> session_data.message_count,
     turns |-> [i \in 1..Len(session_data.conversation) |->
                   [question |-> session_data.conversation[i].question,
                    response |-> session_data.conversation[i].response,
                    sources |-> [j \in 1..Len(session_data.conversation[i].sources) |->
                                    session_data.conversation[i].sources[j].source]]]]

\* lines 335-350: the content of the export file, for json the parsed content
ExportContentText(format, session_data) == FormatAsText(session_data)
ExportContent(format, session_data) ==
    CASE format = "json" -> [format |-> "json", data |-> session_data]
      [] format = "md" -> FormatAsMarkdown(session_data)
      [] OTHER -> FormatAsText(session_data)

\* ChatEngine.export_session; the export directory is only written, never
\* read: the file of an export is kept with the result of the call.  value
\* is <<>> for None, else the path; written is <<>> when no file was written,
\* else holds its content.  io "open_fails": the export file cannot be opened,
\* "write_fails": it is left truncated
ExportSession(session_id, format, io) ==
    LET file == sessions[session_id]
        read == Exists(file) /\ file.kind = "record"
    IN  /\ ret' = [op |-> "export_session", session_id |-> session_id,
                   format |-> format, raised |-> FALSE,
                   value |-> IF read /\ io = "ok"
                             THEN ExportPath(format, now) ELSE <<>>,
                   written |-> IF read /\ io = "ok"
                               THEN <<ExportContent(format, file)>>
                               ELSE IF read /\ io = "write_fails"
                               THEN <<Corrupt>> ELSE <<>>]
        /\ UNCHANGED <<chunkVars, listenVars, indexVars, chatVars>>

\* time passes between two calls
Tick ==
    /\ now < MaxTime
    /\ now' = now + 1
    /\ UNCHANGED <<chunkVars, listenVars, indexVars, engineVars, sessions,
                   uuids, ret>>

(***************************************************************************)
(* HistoryManager (src/src/utils/history_manager.py): the listening        *)
(* history in memory and its file.                                         *)
(***************************************************************************)
\* largest access_count that is followed
MaxAccess == 2

\* lines 60-65 and 89-95: the record of a content name at its first call;
\* completed_at is <<>> when the record has no such key
FirstAccess(clock) ==
    [tracked |-> TRUE, status |-> "in_progress",
     first_accessed |-> IsoFormat(clock), last_accessed |-> IsoFormat(clock),
     completed_at |-> <<>>, access_count |-> 1]
FirstCompleted(clock) ==
    [tracked |-> TRUE, status |-> "completed",
     first_accessed |-> IsoFormat(clock), last_accessed |-> IsoFormat(clock),
     completed_at |-> <<IsoFormat(clock)>>, access_count |-> 1]

\* lines 72-73: a completed item stays completed
StatusAfterAccessReset(status) == "in_progress"
StatusAfterAccess(status) ==
    IF status # "completed" THEN "in_progress" ELSE status

\* lines 58-74
mark_as_accessed(h, content_name, clock) ==
    IF ~h[content_name].tracked
    THEN [h EXCEPT ![content_name] = FirstAccess(clock)]
    ELSE [h EXCEPT ![content_name] =
             [@ EXCEPT !.last_accessed = IsoFormat(clock),
                       !.access_count = @ + 1,
                       !.status = StatusAfterAccess(@)]]

\* lines 87-100
mark_as_completed(h, content_name, clock) ==
    IF ~h[content_name].tracked
    THEN [h EXCEPT ![content_name] = FirstCompleted(clock)]
    ELSE [h EXCEPT ![content_name] =
             [@ EXCEPT !.status = "completed",
                       !.completed_at = <<IsoFormat(clock)>>,
                       !.last_accessed = IsoFormat(clock)]]

\* lines 135-137
get_status(h, content_name) ==
    IF ~h[content_name].tracked THEN "not_started"
    ELSE h[content_name].status

\* lines 42-47: _save_history; io "open_fails": the file is left as it
\* was, "write_fails": it is left truncated; the exception is logged
SaveHistory(old, h, io) ==
    CASE io = "ok" -> [kind |-> "history", history |-> h]
      [] io = "open_fails" -> old
      [] io = "write_fails" -> [kind |-> "corrupt"]

\* the outcomes of _save_history that are followed: the file is written, or
\* json.dump raises and leaves it truncated
HistoryIo == {"ok", "write_fails"}

MarkAsAccessed(content_name, io) ==
    /\ listening_history[content_name].tracked
          => listening_history[content_name].access_count < MaxAccess
    /\ listening_history' =
          mark_as_accessed(listening_history, content_name, now)
    /\ history_file' = SaveHistory(history_file, listening_history', io)
    /\ ret' = [op |-> "mark_as_accessed", content_name |-> content_name,
               raised |-> FALSE, value |-> None]
    /\ UNCHANGED <<chunkVars, indexVars, chatVars>>

MarkAsCompleted(content_name, io) ==
    /\ listening_history' =
          mark_as_completed(listening_history, content_name, now)
    /\ history_file' = SaveHistory(history_file, listening_history', io)
    /\ ret' = [op |-> "mark_as_completed", content_name |-> content_name,
               raised |-> FALSE, value |-> None]
    /\ UNCHANGED <<chunkVars, indexVars, chatVars>>

\* lines 187-191: HistoryManager.clear_history
ClearListeningHistory(io) ==
    /\ listening_history' = [c \in Contents |-> Untracked]
    /\ history_file' = SaveHistory(history_file, listening_history', io)
    /\ ret' = [op |-> "clear_history", content_name |-> 0,
               raised |-> FALSE, value |-> None]
    /\ UNCHANGED <<chunkVars, indexVars, chatVars>>

\* lines 200-203: the file is written only when a record was deleted
DeleteRecord(content_name, io) ==
    /\ io # "ok" => listening_history[content_name].tracked
    /\ listening_history' =
          [listening_history EXCEPT ![content_name] = Untracked]
    /\ history_file' = IF listening_history[content_name].tracked
                       THEN SaveHistory(history_file, listening_history', io)
                       ELSE history_file
    /\ ret' = [op |-> "delete_record", content_name |-> content_name,
               raised |-> FALSE, value |-> None]
    /\ UNCHANGED <<chunkVars, indexVars, chatVars>>

\* datetime.now() is the local wall clock without a time zone: between two
\* calls it is set back when daylight saving time ends or the clock of the
\* machine is adjusted
ClockSetBack ==
    /\ now > 1
    /\ now' = now - 1
    /\ UNCHANGED <<chunkVars, listenVars, indexVars, engineVars, sessions,
                   uuids, ret>>

\* the transcripts the engine answers from, one chunk each
SampleText(p) == IF p = 1 THEN Rep("a", 3) ELSE Rep("b", 4)
LoadedCollection ==
    CollectionAdd(Entries(1, chunk_text(SampleText(1), 0, 0).chunks),
                  Entries(2, chunk_text(SampleText(2), 0, 0).chunks))

\* ChatEngine.__init__, with or without Config.GOOGLE_AI_API_KEY, on a
\* collection that is empty or holds the transcripts
Init ==
    /\ IdleChunker
    /\ IdleListening
    /\ files = <<>>
    /\ collection \in {{}, LoadedCollection}
    /\ model \in {None, GeminiModel}
    /\ conversation_history = <<>>
    /\ current_session_id = 0
    /\ session_start_time = 0
    /\ sessions = [id \in SessionIds |-> Missing]
    /\ now = 1
    /\ uuids = 0
    /\ ret = [op |-> "init"]

\* the engine as the application drives it: app.py asks with use_rag=True
Next ==
    \/ \E q \in Questions, sf \in AskFilters,
          fault \in {"none", "retrieval", "model"}, r \in Responses :
          Ask(q, TRUE, 0, sf, fault, r)
    \/ ClearHistory
    \/ StartNewSession
    \/ \E name \in SessionNames, io \in {"ok", "open_fails", "write_fails"} :
          SaveSession(name, io)
    \/ \E id \in SessionIds : LoadSession(id)
    \/ \E id \in SessionIds : \E io \in {"ok", "fails"} : DeleteSession(id, io)
    \/ ListSessions
    \/ \E id \in SessionIds, format \in ExportFormats,
          io \in {"ok", "open_fails", "write_fails"} : ExportSession(id, format, io)
    \/ Tick

Spec == Init /\ [][Next]_vars

\* the listening history of a manager that starts without a history file
InitHistory ==
    /\ IdleChunker
    /\ IdleChat
    /\ IdleListening
    /\ files = <<>>
    /\ collection = {}
    /\ ret = [op |-> "init"]

NextHistory ==
    \/ \E c \in Contents, io \in HistoryIo : MarkAsAccessed(c, io)
    \/ \E c \in Contents, io \in HistoryIo : MarkAsCompleted(c, io)
    \/ \E c \in Contents, io \in HistoryIo : DeleteRecord(c, io)
    \/ \E io \in HistoryIo : ClearListeningHistory(io)
    \/ Tick

SpecHistory == InitHistory /\ [][NextHistory]_vars

\* a transcript of two chunks, alone in the collection
TwoChunkCollection == Entries(1, chunk_text(Rep("a", 801), 0, 0).chunks)

InitEngine ==
    /\ IdleChunker
    /\ IdleListening
    /\ files = <<>>
    /\ collection \in {{}, LoadedCollection, TwoChunkCollection}
    /\ model \in {None, GeminiModel}
    /\ conversation_history = <<>>
    /\ current_session_id = 0
    /\ session_start_time = 0
    /\ sessions = [id \in SessionIds |-> Missing]
    /\ now = 1
    /\ uuids = 0
    /\ ret = [op |-> "init"]

\* the engine in memory: questions are asked, no session file is touched
NextEngine ==
    \/ \E q \in Questions, rag \in BOOLEAN, sf \in AskFilters,
          fault \in {"none", "retrieval", "model"}, r \in Responses :
          Ask(q, rag, 0, sf, fault, r)
    \/ ClearHistory
    \/ StartNewSession
    \/ Tick

SpecEngine == InitEngine /\ [][NextEngine]_vars

\* the sessions of an engine that is configured and has transcripts
InitSessions ==
    /\ Init
    /\ model = GeminiModel
    /\ collection = LoadedCollection

SpecSessions == InitSessions /\ [][Next]_vars

\* session files that save_session did not write: a JSON object without
\* session_id, without start_time, with a start_time that is no time, or
\* without conversation
SampleTurn == [question |-> 5, response |-> "answer", sources |-> <<>>]
ObjectFiles(id) ==
    {[kind |-> "object", session_id |-> sid, start_time |-> st,
      conversation |-> conv] :
        sid \in {<<>>, <<id>>},
        st \in {<<>>, <<IsoFormat(1)>>, <<<<"yesterday">>>>},
        conv \in {<<>>, <<<<SampleTurn>>>>}}
    \ {[kind |-> "object", session_id |-> <<id>>,
         start_time |-> <<IsoFormat(1)>>, conversation |-> <<<<SampleTurn>>>>]}

\* a ready engine over a Config.CHAT_HISTORY_DIR it did not fill itself
InitLoad ==
    /\ IdleChunker
    /\ IdleListening
    /\ files = <<>>
    /\ collection = LoadedCollection
    /\ model = GeminiModel
    /\ conversation_history = <<>>
    /\ current_session_id = 0
    /\ session_start_time = 0
    /\ sessions \in [SessionIds ->
                        {Missing, Corrupt,
                         SessionData(1, <<>>, 1, <<SampleTurn>>, 1)}
                        \cup ObjectFiles(2)]
    /\ \A id \in SessionIds :
          sessions[id].kind = "record" => sessions[id].session_id = id
    /\ \A id \in SessionIds :
          sessions[id].kind = "object" => id = 2
    /\ now = 1
    \* the names of the files are ids that earlier runs drew
    /\ uuids = Cardinality(SessionIds)
    /\ ret = [op |-> "init"]

\* sessions are loaded and asked; none is written
NextLoad ==
    \/ \E q \in Questions, sf \in AskFilters,
          fault \in {"none", "retrieval", "model"}, r \in Responses :
          Ask(q, TRUE, 0, sf, fault, r)
    \/ ClearHistory
    \/ \E id \in SessionIds : LoadSession(id)
    \/ Tick

SpecLoad == InitLoad /\ [][NextLoad]_vars

\* the sessions of a ready engine on a machine whose wall clock is set back
NextWallClock ==
    \/ Next
    \/ ClockSetBack

SpecWallClock == InitSessions /\ [][NextWallClock]_vars

(***************************************************************************)
(* Claims about the index (checked under SpecIndex and SpecSearch).        *)
(***************************************************************************)
EntriesOf(path) == {e \in collection : e.metadata.source = path}

\* C1: after add_transcript has returned for a transcript, the entries of
\* that document in the index are exactly the chunks of this run: as many
\* as the call reports, each holding the text of the chunk of its index.
C1_ReindexLeavesOnlyNewChunks ==
    (ret.op = "add_transcript" /\ ~ret.raised /\ files[ret.path].state = "ok")
        => LET chs == chunk_text(files[ret.path].text, 0, 0).chunks
           IN  /\ Cardinality(EntriesOf(ret.path)) = ret.value
               /\ \A e \in EntriesOf(ret.path) :
                     /\ e.metadata.chunk_index < Len(chs)
                     /\ e.document = chs[e.metadata.chunk_index + 1]

\* the transcripts add_all_transcripts is able to index
Indexable(storeFault) ==
    {p \in Paths : files[p].state = "ok" /\ p # storeFault}

RECURSIVE SumChunks(_)
SumChunks(S) ==
    IF S = {} THEN 0
    ELSE LET p == SetMin(S)
         IN  Len(chunk_text(files[p].text, 0, 0).chunks) + SumChunks(S \ {p})

\* C8: add_all_transcripts does not raise when one transcript fails; every
\* other transcript is indexed and the total is the sum of their chunks.
C8_BatchIsolation ==
    ret.op = "add_all_transcripts"
        => /\ ~ret.raised
           /\ \A p \in Indexable(ret.storeFault) :
                 \A i \in 1..Len(chunk_text(files[p].text, 0, 0).chunks) :
                     ChunkId(p, i - 1) \in Keys(collection)
           /\ ret.value = SumChunks(Indexable(ret.storeFault))

\* C9: for every document with entries in the index, the chunk_index values
\* are exactly 0..n-1 and every entry carries total_chunks = n.
C9_ChunkNumbering ==
    \A p \in Paths :
        LET n == Cardinality(EntriesOf(p))
        IN  /\ {e.metadata.chunk_index : e \in EntriesOf(p)} = 0..(n - 1)
            /\ \A e \in EntriesOf(p) : e.metadata.total_chunks = n

\* the entry a search result was made from
ResultIn(res, e) ==
    \E i \in 1..Len(res) :
        /\ res[i].metadata = e.metadata
        /\ res[i].text = e.document

C5_ScenarioYieldsThreeChunks ==
    (cpc = "done" /\ Len(text) = 2500 /\ chunk_size = 1000 /\ overlap = 200)
        => Len(chunks) = 3

\* C6: with 0 < overlap < chunk_size the window start strictly increases on
\* every iteration of the loop (so the loop terminates).
C6_StartStrictlyIncreases ==
    [][(ChunkIterate /\ 0 < overlap /\ overlap < chunk_size) => start' > start]_vars

\* the character at 1-based position p of the text is in chunk i, at the
\* place the window of chunk i and its stripped leading whitespace give it
CharInChunk(i, p) ==
    LET s   == windows[i][1]
        e   == windows[i][2]
        k   == p - s - LeadWs(PySlice(text, s, e))
    IN  /\ s < p /\ p <= e
        /\ k \in 1..Len(chunks[i])
        /\ chunks[i][k] = text[p]

\* C7: when chunk_text returns, the chunks are in text order, their windows
\* cover the text without gaps, and every character that is not whitespace
\* occurs in a chunk at the position its window gives it.
C7_ChunksCoverText ==
    cpc = "done" =>
        /\ Len(chunks) = Len(windows)
        /\ \A i \in 1..Len(windows) : windows[i][1] >= 0
        /\ \A i \in 1..(Len(windows) - 1) :
              /\ windows[i][1] < windows[i + 1][1]
              /\ windows[i + 1][1] <= windows[i][2]
        /\ Len(text) > 0 =>
              /\ windows # <<>>
              /\ windows[1][1] = 0
              /\ windows[Len(windows)][2] >= Len(text)
        /\ \A p \in 1..Len(text) :
              text[p] \notin Whitespace =>
                  \E i \in 1..Len(chunks) : CharInChunk(i, p)

\* a returned call with several chunks, one of them cut at a sentence break
\* and one of them shortened by strip()
C7_Witness ==
    /\ cpc = "done"
    /\ Len(chunks) >= 2
    /\ \E i \in 1..Len(windows) :
          /\ windows[i][2] < Len(text)
          /\ windows[i][2] - windows[i][1] < chunk_size
    /\ \E i \in 1..Len(windows) :
          /\ windows[i][2] <= Len(text)
          /\ Len(chunks[i]) < windows[i][2] - windows[i][1]


(***************************************************************************)
(* Claims about the chat engine and its session files (checked under Spec   *)
(* and SpecEngine).                                                        *)
(***************************************************************************)
IsPrefix(s, t) == Len(s) <= Len(t) /\ SubSeq(t, 1, Len(s)) = s

\* C3: the turns persisted for a session are append-only: whenever the
\* record of a session is replaced by a record, the turns of the old record
\* are a prefix of the turns of the new one.
C3_PersistedTurnsAppendOnly ==
    [][\A id \in SessionIds :
          (sessions[id].kind = "record" /\ sessions'[id].kind = "record")
              => IsPrefix(sessions[id].conversation,
                          sessions'[id].conversation)]_vars

\* C4: a save_session that has to start the session itself, on an engine
\* that holds turns, writes a record with those turns and their count.
C4_ImplicitStartKeepsTurns ==
    [][(/\ \E name \in SessionNames : SaveSession(name, "ok")
        /\ current_session_id = 0
        /\ conversation_history # <<>>)
          => /\ sessions'[current_session_id'].kind = "record"
             /\ sessions'[current_session_id'].conversation
                    = conversation_history
             /\ sessions'[current_session_id'].message_count
                    = Len(conversation_history)]_vars

\* C10: an ask in which retrieval or the model raises returns a result with
\* the error flag, a message and no sources, raises nothing, and leaves the
\* conversation history as it was.
C10_AskFailureContained ==
    [][\A q \in Questions, rag \in BOOLEAN, sf \in AskFilters,
          fault \in {"retrieval", "model"}, r \in Responses :
          Ask(q, rag, 0, sf, fault, r)
              => /\ ~ret'.raised
                 /\ ret'.value.error
                 /\ ret'.value.response # ""
                 /\ ret'.value.sources = <<>>
                 /\ conversation_history' = conversation_history]_vars

\* a configured engine that holds a turn has returned the error result
C10_Witness ==
    /\ ret.op = "ask"
    /\ model # None
    /\ ret.value = ErrorResult
    /\ conversation_history # <<>>


\* C11: without a model credential is_ready is false, and ask returns the
\* error result with no sources, raises nothing, searches nothing, invokes
\* no model and leaves the conversation history as it was.
C11_NotConfiguredPath ==
    [][(ret'.op = "ask" /\ now' = now /\ model = None)
          => /\ ~is_ready(model)
             /\ ~ret'.raised
             /\ ret'.value.error
             /\ ret'.value.sources = <<>>
             /\ ~ret'.searched
             /\ ret'.prompt = "none"
             /\ conversation_history' = conversation_history]_vars

\* an engine without a model has answered an ask
C11_Witness ==
    /\ ret.op = "ask"
    /\ model = None
    /\ ret.value = NotConfigured
    /\ collection # {}

\* C12: on a ready engine, an ask with retrieval that finds no chunk sends
\* the fallback prompt, returns error = false, context_used = false and no
\* sources, and appends the turn to the conversation history.
C12_EmptyRetrieval ==
    [][(/\ ret'.op = "ask"
        /\ now' = now
        /\ model # None
        /\ ret'.searched
        /\ collection = {}
        /\ ret'.prompt # "none")
          => /\ ret'.prompt = "fallback"
             /\ ~ret'.value.error =>
                   /\ ~ret'.value.context_used
                   /\ ret'.value.sources = <<>>
                   /\ \E q \in Questions :
                         conversation_history' =
                            Append(conversation_history,
                                   [question |-> q,
                                    response |-> ret'.value.response,
                                    sources |-> <<>>])]_vars

\* a ready engine has answered from an empty index and holds the turn
C12_Witness ==
    /\ ret.op = "ask"
    /\ model # None
    /\ ret.searched
    /\ collection = {}
    /\ ~ret.value.error
    /\ ret.prompt = "fallback"
    /\ conversation_history # <<>>

\* C13 as stated: the sources a successful ask returns hold at most one
\* citation per source document.
C13_AskSourcesDeduplicated ==
    (ret.op = "ask" /\ ~ret.value.error)
        => \A i, j \in 1..Len(ret.value.sources) :
              ret.value.sources[i].source = ret.value.sources[j].source => i = j

\* C13 (amended): a successful ask returns one citation per retrieved chunk;
\* format_sources of them has one line per source document, in the order of
\* first citation, with the chunk indices of all citations of the document.
C13_CitationsPerChunkFormattedPerDocument ==
    (ret.op = "ask" /\ ~ret.value.error)
        => LET sources == ret.value.sources
               lines   == format_sources(sources).lines
           IN  /\ ret.searched =>
                     Len(sources) = Min(TOP_K_RESULTS, Cardinality(collection))
               /\ \A i, j \in 1..Len(sources) :
                     (sources[i] = sources[j]) => i = j
               /\ format_sources(sources).none = (sources = <<>>)
               /\ {lines[n].source : n \in 1..Len(lines)}
                     = {sources[i].source : i \in 1..Len(sources)}
               /\ \A n, m \in 1..Len(lines) :
                     lines[n].source = lines[m].source => n = m
               /\ \A n \in 1..Len(lines) :
                     LET of == {i \in 1..Len(sources) :
                                   sources[i].source = lines[n].source}
                     IN  /\ Len(lines[n].chunks) = Cardinality(of)
                         /\ {lines[n].chunks[c] : c \in 1..Len(lines[n].chunks)}
                               = {sources[i].chunk_index : i \in of}

\* an ask has returned two citations of the same document
C13_Witness ==
    /\ ret.op = "ask"
    /\ ~ret.value.error
    /\ Len(ret.value.sources) = 2
    /\ ret.value.sources[1].source = ret.value.sources[2].source


(***************************************************************************)
(* Claims about the session files (checked under SpecSessions).  A step is *)
(* a call of the operation op when it sets ret.op to op without the clock  *)
(* moving.                                                                 *)
(***************************************************************************)
Called(op) == ret'.op = op /\ now' = now

AgreeButLastUpdated(r1, r2) ==
    /\ r1.session_id = r2.session_id
    /\ r1.session_name = r2.session_name
    /\ r1.start_time = r2.start_time
    /\ r1.message_count = r2.message_count
    /\ r1.conversation = r2.conversation

\* C14: a save_session that follows a save_session with the same name, both
\* written, writes the record of the same session id, and the two records
\* agree on everything but last_updated; in every record message_count is
\* the length of conversation.
C14_SaveIdempotent ==
    [][/\ (/\ Called("save_session")
           /\ ret.op = "save_session"
           /\ ret.io = "ok" /\ ret'.io = "ok"
           /\ ret'.session_name = ret.session_name)
            => /\ current_session_id' = current_session_id
               /\ sessions[current_session_id].kind = "record"
               /\ sessions'[current_session_id].kind = "record"
               /\ AgreeButLastUpdated(sessions[current_session_id],
                                      sessions'[current_session_id])
               /\ \A id \in SessionIds \ {current_session_id} :
                     sessions'[id] = sessions[id]
       /\ \A id \in SessionIds :
             sessions'[id].kind = "record" =>
                sessions'[id].message_count = Len(sessions'[id].conversation)]_vars

\* a session with a turn was saved again after the clock had moved
C14_Witness ==
    /\ ret.op = "save_session" /\ ret.io = "ok" /\ ret.rewritten
    /\ sessions[current_session_id].kind = "record"
    /\ sessions[current_session_id].conversation # <<>>
    /\ sessions[current_session_id].last_updated
          # sessions[current_session_id].start_time

\* what load_session leaves when the file of the session is a record
LoadedFromRecord ==
    (ret.op = "load_session" /\ sessions[ret.session_id].kind = "record")
        => /\ ret.value
           /\ current_session_id = sessions[ret.session_id].session_id
           /\ current_session_id = ret.session_id
           /\ IsoFormat(session_start_time) = sessions[ret.session_id].start_time
           /\ conversation_history = sessions[ret.session_id].conversation

\* C15: load_session of a saved session returns true and makes the session
\* id, the start time and the turns in memory equal to those of the record;
\* an ask that follows appends after the turns of the record.
C15_SaveLoadRoundTrip ==
    [][/\ LoadedFromRecord'
       /\ (/\ Called("ask")
           /\ ret.op = "load_session" /\ ret.value
           /\ ~ret'.value.error)
            => /\ current_session_id' = ret.session_id
               /\ Len(conversation_history')
                     = Len(sessions[ret.session_id].conversation) + 1
               /\ SubSeq(conversation_history', 1,
                         Len(sessions[ret.session_id].conversation))
                     = sessions[ret.session_id].conversation]_vars

\* a saved session with a turn was loaded into an engine that had started
\* another session since
C15_Witness ==
    /\ ret.op = "load_session" /\ ret.value
    /\ conversation_history # <<>>
    /\ uuids = Cardinality(SessionIds)
    /\ current_session_id # uuids

\* C16: for a session id without a file, load_session returns False,
\* export_session returns None and writes nothing, delete_session returns
\* False, none raises, and the engine and all session files are unchanged.
C16_NotFoundHandling ==
    [][\A op \in {"load_session", "export_session", "delete_session"} :
          (Called(op) /\ sessions[ret'.session_id].kind = "missing")
              => /\ ~ret'.raised
                 /\ op = "export_session" =>
                       (ret'.value = <<>> /\ ret'.written = <<>>)
                 /\ op # "export_session" => ret'.value = FALSE
                 /\ UNCHANGED <<engineVars, sessions>>]_vars

\* delete_session has returned False for an id without a file while another
\* session is persisted and active with a turn
C16_Witness ==
    /\ ret.op = "delete_session" /\ ~ret.value
    /\ current_session_id # 0 /\ current_session_id # ret.session_id
    /\ sessions[current_session_id].kind = "record"
    /\ conversation_history # <<>>

\* C17: delete_session of a session with a record removes the record and
\* returns True; afterwards list_sessions has no entry for it, and
\* load_session, export_session and a second delete_session of it return
\* False, None and False.
C17_Delete ==
    [][/\ (/\ Called("delete_session")
           /\ sessions[ret'.session_id].kind = "record"
           /\ ret'.io = "ok")
            => /\ ret'.value = TRUE
               /\ sessions'[ret'.session_id] = Missing
               /\ \A id \in SessionIds \ {ret'.session_id} :
                     sessions'[id] = sessions[id]
               /\ \A listing \in list_sessions(sessions') :
                     \A i \in 1..Len(listing) :
                        listing[i].session_id # ret'.session_id
       /\ \A op \in {"load_session", "export_session", "delete_session"} :
             (/\ Called(op)
              /\ ret.op = "delete_session" /\ ret.value = TRUE
              /\ ret'.session_id = ret.session_id)
                => IF op = "export_session" THEN ret'.value = <<>>
                   ELSE ret'.value = FALSE]_vars

\* the record of a session with a turn was deleted while another session
\* stays persisted
C17_Witness ==
    /\ ret.op = "delete_session" /\ ret.value
    /\ sessions[ret.session_id] = Missing
    /\ \E id \in SessionIds : sessions[id].kind = "record"

\* C18: of two persisted sessions, the one whose last save happened after
\* the last save of the other comes first in the listing: the session that
\* save_session has just written comes before every session of another
\* last_updated.
C18_LastSavedListedFirst ==
    (/\ ret.op = "save_session" /\ ret.io = "ok"
     /\ sessions[current_session_id].kind = "record")
        => \A listing \in list_sessions(sessions) :
              \A i, j \in 1..Len(listing) :
                 (/\ listing[j].session_id = current_session_id
                  /\ listing[i].last_updated # listing[j].last_updated)
                    => j < i

\* C19: export_session(id, 'json') of a session record writes a file whose
\* parsed content is the record, field by field; an export changes neither
\* the session files nor the session in memory.
C19_JsonExportRoundTrip ==
    [][Called("export_session")
          => /\ UNCHANGED <<engineVars, sessions>>
             /\ (ret'.format = "json" /\ ret'.value # <<>>)
                   => /\ sessions[ret'.session_id].kind = "record"
                      /\ Len(ret'.written) = 1
                      /\ ret'.written[1].format = "json"
                      /\ ret'.written[1].data = sessions[ret'.session_id]]_vars

\* a session with a turn was exported as json
C19_Witness ==
    /\ ret.op = "export_session" /\ ret.format = "json"
    /\ ret.value # <<>>
    /\ sessions[ret.session_id].kind = "record"
    /\ sessions[ret.session_id].conversation # <<>>

\* C20: a successful ask appends exactly one turn, with its question,
\* response and sources, at the end of the history in memory and changes no
\* session file; a record changes or appears only by save_session.
C20_AppendDoesNotPersist ==
    [][/\ (Called("ask") /\ ~ret'.value.error)
            => /\ \E q \in Questions :
                     conversation_history' =
                        Append(conversation_history,
                               [question |-> q,
                                response |-> ret'.value.response,
                                sources |-> ret'.value.sources])
               /\ sessions' = sessions
       /\ \A id \in SessionIds :
             (sessions'[id].kind = "record" /\ sessions'[id] # sessions[id])
                => Called("save_session")]_vars

\* a turn is in memory that the record of the active session does not hold
C20_Witness ==
    /\ ret.op = "ask" /\ ~ret.value.error
    /\ current_session_id # 0
    /\ sessions[current_session_id].kind = "record"
    /\ sessions[current_session_id].conversation # conversation_history

\* C21: a save_session whose write of the session file fails returns a
\* result that tells the failure, not the None of a save that succeeded.
C21_SaveFailureReported ==
    (ret.op = "save_session" /\ ret.io # "ok") => ret.value # None

\* C22: start_new_session returns an id that no earlier call returned and
\* that no session file carries, makes it the current session, records the
\* clock as its start time and empties the turns in memory.
C22_StartNewSessionFresh ==
    [][Called("start_new_session")
          => /\ ret'.value \notin 1..uuids
             /\ ret'.value # current_session_id
             /\ sessions[ret'.value].kind = "missing"
             /\ \A id \in SessionIds :
                   sessions[id].kind = "record"
                      => sessions[id].session_id # ret'.value
             /\ current_session_id' = ret'.value
             /\ session_start_time' = now
             /\ conversation_history' = <<>>
             /\ sessions' = sessions]_vars

\* a second session was started while the first, with a turn, is persisted
\* and its turn was still in memory
C22_Witness ==
    /\ ret.op = "start_new_session"
    /\ ret.value = 2
    /\ current_session_id = 2
    /\ sessions[1].kind = "record"
    /\ sessions[1].conversation # <<>>
    /\ conversation_history = <<>>

\* C23: a call changes the session file of at most one session:
\* save_session only the file of the session that is current when it
\* returns, delete_session(id) only the file of id, and every other call
\* none.
C23_SessionIndependence ==
    [][/\ Cardinality({id \in SessionIds : sessions'[id] # sessions[id]}) <= 1
       /\ Called("save_session")
             => \A id \in SessionIds \ {current_session_id'} :
                   sessions'[id] = sessions[id]
       /\ Called("delete_session")
             => \A id \in SessionIds \ {ret'.session_id} :
                   sessions'[id] = sessions[id]
       /\ (~Called("save_session") /\ ~Called("delete_session"))
             => sessions' = sessions]_vars

\* session 2 was saved, or a session deleted, while the record of another
\* session with a turn is on disk
C23_Witness ==
    /\ \/ ret.op = "save_session" /\ ret.io = "ok" /\ current_session_id = 2
       \/ ret.op = "delete_session" /\ ret.value /\ ret.session_id = 2
    /\ sessions[1].kind = "record"
    /\ sessions[1].conversation # <<>>

\* C24: a search_filtered call that is given a source filter naming no
\* document is rejected or finds nothing; it returns no chunk of a document
\* outside the filter.
C24_FilterNeverWidened ==
    (/\ ret.op = "search_filtered"
     /\ ret.source_files.given
     /\ ret.source_files.files = {})
        => \/ ret.raised
           \/ ret.value = <<>>

\* the 0-based offset, in the window of chunk_size characters that starts at
\* st, of the last '.' or newline of the window; -1 when it has none
LastBreak(t, st, cs) ==
    LET hits == {i \in (st + 1)..Min(st + cs, Len(t)) : t[i] \in {".", "\n"}}
    IN  IF hits = {} THEN -1 ELSE SetMax(hits) - 1 - st

\* C25: an iteration of chunk_text whose window does not reach the end of
\* the text cuts the chunk at the last '.' or newline of the window exactly
\* when that break lies after at least half of chunk_size; a chunk that was
\* cut ends with the break character and the next window starts right after
\* the break; after a chunk that was not cut the next window starts
\* chunk_size - overlap after the start of this one.
C25_BreakHandling ==
    [][(/\ cpc = "loop"
        /\ Len(chunks') = Len(chunks) + 1
        /\ start + chunk_size < Len(text))
          => LET break_point == LastBreak(text, start, chunk_size)
                 chunk == chunks'[Len(chunks')]
                 end == windows'[Len(windows')][2]
                 cut == break_point >= 0 /\ 2 * break_point >= chunk_size
             IN  /\ cut => /\ end = start + break_point + 1
                           /\ chunk # <<>>
                           /\ chunk[Len(chunk)] = text[start + break_point + 1]
                           /\ start' = start + break_point + 1
                 /\ ~cut => /\ end = start + chunk_size
                            /\ start' = start + chunk_size - overlap]_vars

\* C26: a load_session that returns False leaves the current session id,
\* the session start time and the turns in memory as they were, and does
\* not raise.
C26_FailedLoadAtomic ==
    [][(Called("load_session") /\ ~ret'.value)
          => /\ ~ret'.raised
             /\ current_session_id' = current_session_id
             /\ session_start_time' = session_start_time
             /\ conversation_history' = conversation_history]_vars

\* C27: after delete_session(id) has returned True, an ask or a save_session
\* that follows it, with no start_new_session or load_session in between,
\* leaves no session file under id.
C27_DeletedStaysDeleted ==
    [][(/\ ret.op = "delete_session"
        /\ ret.value
        /\ (Called("ask") \/ Called("save_session")))
          => sessions'[ret.session_id].kind = "missing"]_vars

\* C28: a save_session without a name, of a session whose record carries a
\* name the caller gave, writes a record that keeps that name.
C28_SessionNameStable ==
    [][(/\ Called("save_session")
        /\ ret'.io = "ok"
        /\ ret'.session_name = <<>>
        /\ current_session_id # 0
        /\ sessions[current_session_id].kind = "record"
        /\ sessions[current_session_id].session_name \in SessionNames \ {<<>>})
          => sessions'[current_session_id].session_name
                = sessions[current_session_id].session_name]_vars

\* the listing holds one entry for each session record on disk, and no
\* other, with the number of turns of the record as message_count
ListingMatchesStore ==
    ret.op = "list_sessions"
        => LET listing == ret.value
           IN  /\ {listing[i].session_id : i \in 1..Len(listing)}
                     = {id \in SessionIds : sessions[id].kind = "record"}
               /\ \A i, j \in 1..Len(listing) :
                     listing[i].session_id = listing[j].session_id => i = j
               /\ \A i \in 1..Len(listing) :
                     listing[i].message_count
                        = Len(sessions[listing[i].session_id].conversation)

StatusRank(status) ==
    CASE status = "not_started" -> 0
      [] status = "in_progress" -> 1
      [] status = "completed" -> 2

\* C30: mark_as_accessed and mark_as_completed never move the status of a
\* content item backwards in not_started, in_progress, completed; a
\* completed item stays completed under them, mark_as_accessed of it only
\* sets last_accessed and adds exactly 1 to access_count; an item leaves
\* 'completed' only by delete_record of it or by clear_history.
C30_StatusMonotonic ==
    [][\A c \in Contents :
          LET before == get_status(listening_history, c)
              after  == get_status(listening_history', c)
          IN  /\ (Called("mark_as_accessed") \/ Called("mark_as_completed"))
                    => /\ StatusRank(after) >= StatusRank(before)
                       /\ ret'.content_name = c => after # "not_started"
                       /\ ret'.content_name # c
                             => listening_history'[c] = listening_history[c]
              /\ (Called("mark_as_completed") /\ ret'.content_name = c)
                    => after = "completed"
              /\ (/\ Called("mark_as_accessed")
                  /\ ret'.content_name = c
                  /\ before = "completed")
                    => listening_history'[c] =
                          [listening_history[c] EXCEPT
                              !.last_accessed = IsoFormat(now),
                              !.access_count = @ + 1]
              /\ (before = "completed" /\ after # "completed")
                    => \/ Called("delete_record") /\ ret'.content_name = c
                       \/ Called("clear_history")]_vars

\* a completed item was accessed again, after the clock had moved
C30_Witness ==
    /\ ret.op = "mark_as_accessed"
    /\ listening_history[ret.content_name].tracked
    /\ listening_history[ret.content_name].status = "completed"
    /\ listening_history[ret.content_name].access_count = 2
    /\ listening_history[ret.content_name].completed_at
          # <<listening_history[ret.content_name].last_accessed>>

=============================================================================
